---- MODULE Spec2Model ----
(***************************************************************************)
(* Decoders of the PostgreSQL streaming-replication messages of            *)
(* sqlx-postgres (src/sqlx-postgres/src/message/replication.rs).           *)
(*                                                                         *)
(* A buffer (bytes::Bytes) is a sequence of bytes 0..255; reading advances *)
(* the cursor, i.e. drops a prefix.  Every decoder is an operator from the *)
(* remaining buffer to an outcome record                                   *)
(*     [st, val, rest, err]                                                *)
(* where st is "ok" (Ok(val), cursor left at rest), "err" (Err(err)) or    *)
(* "panic" (the thread unwinds: bytes::Buf::get_* on a short buffer, or a  *)
(* capacity overflow in Vec::with_capacity / vec![0; n]).                  *)
(***************************************************************************)
EXTENDS Integers, Sequences, FiniteSets, TLC

VARIABLES msg, input, pc, entry, result

vars == <<msg, input, pc, entry, result>>

(***************************************************************************)
(* Bounds of the generated inputs.                                         *)
(***************************************************************************)
MaxCols == 2
MaxKeyCols == 1
MaxLen == 1
MaxRaw == 2
MaxPayload == 2

(***************************************************************************)
(* Tag and marker bytes of the wire format (ASCII codes).                  *)
(***************************************************************************)
Tag_w == 119
Tag_k == 107
Tag_C == 67
Tag_I == 73
Tag_U == 85
Tag_D == 68
Mark_K == 75
Mark_O == 79
Mark_N == 78
Tag_n == 110
Tag_u == 117
Tag_t == 116
Tag_b == 98

\* The payload-free arms of LogicalReplication::decode_with.
NoPayloadTag ==
    (66 :> "Begin") @@ (77 :> "Message") @@ (79 :> "Origin") @@
    (82 :> "Relation") @@ (89 :> "Type") @@ (84 :> "Truncate") @@
    (83 :> "StreamStart") @@ (69 :> "StreamStop") @@ (99 :> "StreamCommit") @@
    (65 :> "StreamAbort") @@ (98 :> "BeginPrepare") @@ (80 :> "Prepare") @@
    (75 :> "CommitPrepared") @@ (114 :> "RollbackPrepared") @@
    (112 :> "StreamPrepare")

(***************************************************************************)
(* Outcomes: Result<T, sqlx_core::Error>, or a panic.                      *)
(***************************************************************************)
NoVal == [type |-> "none"]
NoErr == [kind |-> "none"]

Ok(v, rest) == [st |-> "ok", val |-> v, rest |-> rest, err |-> NoErr]
Err(e, rest) == [st |-> "err", val |-> NoVal, rest |-> rest, err |-> e]
Panic == [st |-> "panic", val |-> NoVal, rest |-> <<>>, err |-> NoErr]

\* err_protocol!(fmt, x as char): the message text and the byte it cites.
ErrProtocol(text, byte) == [kind |-> "Protocol", text |-> text, byte |-> byte]
\* err_protocol!("expected new data"): no byte is formatted into the message.
ErrExpectedNew == [kind |-> "Protocol", text |-> "expected new data"]
\* io::ErrorKind::UnexpectedEof from read_exact, converted by `?`.
ErrIo == [kind |-> "Io", text |-> "UnexpectedEof"]

None == [some |-> FALSE, cols |-> <<>>]
Some(t) == [some |-> TRUE, cols |-> t]

(***************************************************************************)
(* bytes::Buf primitives.  Each panics when fewer bytes remain than it     *)
(* reads.                                                                  *)
(***************************************************************************)
Drop(buf, n) == SubSeq(buf, n + 1, Len(buf))
Take(buf, n) == SubSeq(buf, 1, n)

RECURSIVE BeMagnitude(_, _)
\* Big-endian base-256 value of bs, each byte b read as b (flip = FALSE) or
\* as 255 - b (flip = TRUE).
BeMagnitude(bs, flip) ==
    IF bs = <<>> THEN 0
    ELSE LET n == Len(bs)
             d == IF flip THEN 255 - bs[n] ELSE bs[n]
         IN  256 * BeMagnitude(Take(bs, n - 1), flip) + d

\* Two's complement: a set sign bit means -(~bits) - 1.
BeSigned(bs) ==
    IF bs[1] >= 128 THEN 0 - BeMagnitude(bs, TRUE) - 1
    ELSE BeMagnitude(bs, FALSE)

get_u8(buf) ==
    IF Len(buf) < 1 THEN Panic ELSE Ok(buf[1], Drop(buf, 1))

get_int(buf, w) ==
    IF Len(buf) < w THEN Panic ELSE Ok(BeSigned(Take(buf, w)), Drop(buf, w))

get_i8(buf) == get_int(buf, 1)
get_i16(buf) == get_int(buf, 2)
get_i32(buf) == get_int(buf, 4)
get_i64(buf) == get_int(buf, 8)

(***************************************************************************)
(* Physical messages.                                                      *)
(***************************************************************************)
\* Mutant: wal_start and wal_end read in the wrong order.
XLogData_decode_with_swapped(buf) ==
    LET a == get_i64(buf) IN
    IF a.st # "ok" THEN a ELSE
    LET b == get_i64(a.rest) IN
    IF b.st # "ok" THEN b ELSE
    LET c == get_i64(b.rest) IN
    IF c.st # "ok" THEN c ELSE
    Ok([type |-> "XLogData", wal_start |-> b.val, wal_end |-> a.val,
        timestamp |-> c.val, data |-> c.rest], <<>>)

XLogData_decode_with(buf) ==
    LET a == get_i64(buf) IN
    IF a.st # "ok" THEN a ELSE
    LET b == get_i64(a.rest) IN
    IF b.st # "ok" THEN b ELSE
    LET c == get_i64(b.rest) IN
    IF c.st # "ok" THEN c ELSE
    Ok([type |-> "XLogData", wal_start |-> a.val, wal_end |-> b.val,
        timestamp |-> c.val, data |-> c.rest], <<>>)

PrimaryKeepalive_decode_with(buf) ==
    LET a == get_i64(buf) IN
    IF a.st # "ok" THEN a ELSE
    LET b == get_i64(a.rest) IN
    IF b.st # "ok" THEN b ELSE
    LET c == get_u8(b.rest) IN
    IF c.st # "ok" THEN c ELSE
    Ok([type |-> "PrimaryKeepalive", wal_end |-> a.val, timestamp |-> b.val,
        reply |-> c.val], c.rest)

Replication_decode_with(buf) ==
    LET f == get_u8(buf) IN
    IF f.st # "ok" THEN f
    ELSE IF f.val = Tag_w THEN XLogData_decode_with(f.rest)
    ELSE IF f.val = Tag_k THEN PrimaryKeepalive_decode_with(f.rest)
    ELSE Err(ErrProtocol("unknown replication message type", f.val), f.rest)

(***************************************************************************)
(* Tuple values and tuple sets (decoded in place: buf is &mut Bytes).      *)
(***************************************************************************)
\* let len = buf.get_i32(); let mut data = vec![0; len as usize];
\* buf.reader().read_exact(&mut data)?
\* A negative len cast to usize exceeds isize::MAX: vec! panics with a
\* capacity overflow.  read_exact drains the buffer before it reports a
\* short read.
ReadData(type, buf) ==
    LET len == get_i32(buf) IN
    IF len.st # "ok" THEN len
    ELSE IF len.val < 0 THEN Panic
    ELSE IF Len(len.rest) < len.val THEN Err(ErrIo, <<>>)
    ELSE Ok([type |-> type, data |-> Take(len.rest, len.val)],
            Drop(len.rest, len.val))

\* Mutant: the default arm yields Null instead of a protocol error.
TupleData_decode_lenient(buf) ==
    LET x == get_u8(buf) IN
    IF x.st # "ok" THEN x
    ELSE IF x.val = Tag_u THEN Ok([type |-> "UnchangedToast"], x.rest)
    ELSE IF x.val = Tag_t THEN ReadData("Text", x.rest)
    ELSE IF x.val = Tag_b THEN ReadData("Binary", x.rest)
    ELSE Ok([type |-> "Null"], x.rest)

TupleData_decode(buf) ==
    LET x == get_u8(buf) IN
    IF x.st # "ok" THEN x
    ELSE IF x.val = Tag_n THEN Ok([type |-> "Null"], x.rest)
    ELSE IF x.val = Tag_u THEN Ok([type |-> "UnchangedToast"], x.rest)
    ELSE IF x.val = Tag_t THEN ReadData("Text", x.rest)
    ELSE IF x.val = Tag_b THEN ReadData("Binary", x.rest)
    ELSE Err(ErrProtocol("unknown typle data type", x.val), x.rest)

RECURSIVE TuplesLoop_reversed(_, _, _)
\* Mutant: each value is inserted at the front instead of pushed.
TuplesLoop_reversed(buf, todo, tuple_data) ==
    IF todo = 0 THEN Ok(tuple_data, buf)
    ELSE LET d == TupleData_decode(buf) IN
         IF d.st # "ok" THEN d
         ELSE TuplesLoop_reversed(d.rest, todo - 1, <<d.val>> \o tuple_data)

RECURSIVE TuplesLoop(_, _, _)
\* for _ in 0..n_cols { tuple_data.push(TupleData::decode(buf)?); }
TuplesLoop(buf, todo, tuple_data) ==
    IF todo = 0 THEN Ok(tuple_data, buf)
    ELSE LET d == TupleData_decode(buf) IN
         IF d.st # "ok" THEN d
         ELSE TuplesLoop(d.rest, todo - 1, Append(tuple_data, d.val))

\* A negative n_cols cast to usize overflows the capacity computation of
\* Vec::with_capacity, which panics.
Tuples_decode(buf) ==
    LET n_cols == get_i16(buf) IN
    IF n_cols.st # "ok" THEN n_cols
    ELSE IF n_cols.val < 0 THEN Panic
    ELSE TuplesLoop(n_cols.rest, n_cols.val, <<>>)

(***************************************************************************)
(* Logical messages.                                                       *)
(***************************************************************************)
Commit_decode_with(buf) ==
    LET a == get_i64(buf) IN
    IF a.st # "ok" THEN a ELSE
    LET f == get_i8(a.rest) IN
    IF f.st # "ok" THEN f ELSE
    LET b == get_i64(f.rest) IN
    IF b.st # "ok" THEN b ELSE
    LET c == get_i64(b.rest) IN
    IF c.st # "ok" THEN c ELSE
    Ok([type |-> "Commit", commit_lsn |-> a.val, flags |-> f.val,
        transaction_lsn |-> b.val, timestamp |-> c.val], c.rest)

\* Mutant: the marker byte is consumed but not compared with 'N'.
Insert_decode_with_unchecked(buf) ==
    LET transaction_id == get_i32(buf) IN
    IF transaction_id.st # "ok" THEN transaction_id ELSE
    LET oid == get_i32(transaction_id.rest) IN
    IF oid.st # "ok" THEN oid ELSE
    LET m == get_u8(oid.rest) IN
    IF m.st # "ok" THEN m ELSE
    LET data == Tuples_decode(m.rest) IN
    IF data.st # "ok" THEN data ELSE
    Ok([type |-> "Insert", transaction_id |-> transaction_id.val,
        oid |-> oid.val, data |-> data.val], data.rest)

Insert_decode_with(buf) ==
    LET transaction_id == get_i32(buf) IN
    IF transaction_id.st # "ok" THEN transaction_id ELSE
    LET oid == get_i32(transaction_id.rest) IN
    IF oid.st # "ok" THEN oid ELSE
    LET m == get_u8(oid.rest) IN
    IF m.st # "ok" THEN m
    ELSE IF m.val # Mark_N THEN Err(ErrExpectedNew, m.rest) ELSE
    LET data == Tuples_decode(m.rest) IN
    IF data.st # "ok" THEN data ELSE
    Ok([type |-> "Insert", transaction_id |-> transaction_id.val,
        oid |-> oid.val, data |-> data.val], data.rest)

\* Mutant: the 'K' arm fills old_data as well.
Update_optional_both(buf) ==
    IF Len(buf) >= 1 /\ buf[1] = Mark_K THEN
        LET t == Tuples_decode(Drop(buf, 1)) IN
        IF t.st # "ok" THEN t
        ELSE Ok([key_data |-> Some(t.val), old_data |-> Some(t.val)], t.rest)
    ELSE IF Len(buf) >= 1 /\ buf[1] = Mark_O THEN
        LET t == Tuples_decode(Drop(buf, 1)) IN
        IF t.st # "ok" THEN t
        ELSE Ok([key_data |-> None, old_data |-> Some(t.val)], t.rest)
    ELSE Ok([key_data |-> None, old_data |-> None], buf)

\* Mutant: the byte is consumed in every arm, as Delete does.
Update_optional_consuming(buf) ==
    IF Len(buf) >= 1 /\ buf[1] = Mark_K THEN
        LET t == Tuples_decode(Drop(buf, 1)) IN
        IF t.st # "ok" THEN t
        ELSE Ok([key_data |-> Some(t.val), old_data |-> None], t.rest)
    ELSE IF Len(buf) >= 1 /\ buf[1] = Mark_O THEN
        LET t == Tuples_decode(Drop(buf, 1)) IN
        IF t.st # "ok" THEN t
        ELSE Ok([key_data |-> None, old_data |-> Some(t.val)], t.rest)
    ELSE IF Len(buf) >= 1 THEN Ok([key_data |-> None, old_data |-> None], Drop(buf, 1))
    ELSE Panic

\* match buf.first() { Some(b'K') => .., Some(b'O') => .., _ => (None, None) }
\* The outcome's val is the pair (key_data, old_data).
Update_optional(buf) ==
    IF Len(buf) >= 1 /\ buf[1] = Mark_K THEN
        LET t == Tuples_decode(Drop(buf, 1)) IN
        IF t.st # "ok" THEN t
        ELSE Ok([key_data |-> Some(t.val), old_data |-> None], t.rest)
    ELSE IF Len(buf) >= 1 /\ buf[1] = Mark_O THEN
        LET t == Tuples_decode(Drop(buf, 1)) IN
        IF t.st # "ok" THEN t
        ELSE Ok([key_data |-> None, old_data |-> Some(t.val)], t.rest)
    ELSE Ok([key_data |-> None, old_data |-> None], buf)

Update_decode_with(buf) ==
    LET transaction_id == get_i32(buf) IN
    IF transaction_id.st # "ok" THEN transaction_id ELSE
    LET oid == get_i32(transaction_id.rest) IN
    IF oid.st # "ok" THEN oid ELSE
    LET opt == Update_optional(oid.rest) IN
    IF opt.st # "ok" THEN opt ELSE
    LET m == get_u8(opt.rest) IN
    IF m.st # "ok" THEN m
    ELSE IF m.val # Mark_N THEN Err(ErrExpectedNew, m.rest) ELSE
    LET new_data == Tuples_decode(m.rest) IN
    IF new_data.st # "ok" THEN new_data ELSE
    Ok([type |-> "Update", transaction_id |-> transaction_id.val,
        oid |-> oid.val, key_data |-> opt.val.key_data,
        old_data |-> opt.val.old_data, new_data |-> new_data.val],
       new_data.rest)

\* match buf.get_u8() { b'K' => .., b'O' => .., _ => (None, None) }
Delete_optional(buf) ==
    LET m == get_u8(buf) IN
    IF m.st # "ok" THEN m
    ELSE IF m.val = Mark_K THEN
        LET t == Tuples_decode(m.rest) IN
        IF t.st # "ok" THEN t
        ELSE Ok([key_data |-> Some(t.val), old_data |-> None], t.rest)
    ELSE IF m.val = Mark_O THEN
        LET t == Tuples_decode(m.rest) IN
        IF t.st # "ok" THEN t
        ELSE Ok([key_data |-> None, old_data |-> Some(t.val)], t.rest)
    ELSE Ok([key_data |-> None, old_data |-> None], m.rest)

Delete_decode_with(buf) ==
    LET transaction_id == get_i32(buf) IN
    IF transaction_id.st # "ok" THEN transaction_id ELSE
    LET oid == get_i32(transaction_id.rest) IN
    IF oid.st # "ok" THEN oid ELSE
    LET opt == Delete_optional(oid.rest) IN
    IF opt.st # "ok" THEN opt ELSE
    Ok([type |-> "Delete", transaction_id |-> transaction_id.val,
        oid |-> oid.val, key_data |-> opt.val.key_data,
        old_data |-> opt.val.old_data], opt.rest)

LogicalReplication_decode_with(buf) ==
    LET f == get_u8(buf) IN
    IF f.st # "ok" THEN f
    ELSE IF f.val = Tag_C THEN Commit_decode_with(f.rest)
    ELSE IF f.val = Tag_I THEN Insert_decode_with(f.rest)
    ELSE IF f.val = Tag_U THEN Update_decode_with(f.rest)
    ELSE IF f.val = Tag_D THEN Delete_decode_with(f.rest)
    ELSE IF f.val \in DOMAIN NoPayloadTag
         THEN Ok([type |-> NoPayloadTag[f.val]], f.rest)
    ELSE Err(ErrProtocol("unknown logical replication message type", f.val),
             f.rest)

(***************************************************************************)
(* The messages a peer sends, and their wire encoding.  msg describes the  *)
(* message; input is a prefix of its encoding (the whole of it, or a       *)
(* truncation).  Malformed parts are described as such: a tuple value with *)
(* an unknown kind byte or a negative length, a tuple set with a negative  *)
(* column count, a marker byte other than the expected one.                *)
(***************************************************************************)
RECURSIVE EncMagnitude(_, _)
EncMagnitude(m, w) ==
    IF w = 0 THEN <<>> ELSE Append(EncMagnitude(m \div 256, w - 1), m % 256)

\* v as w big-endian bytes, two's complement.
EncInt(v, w) ==
    IF v >= 0 THEN EncMagnitude(v, w)
    ELSE [i \in 1..w |-> 255 - EncMagnitude(0 - v - 1, w)[i]]

SeqsUpTo(S, n) == UNION {[1..k -> S] : k \in 0..n}

RECURSIVE Flatten(_)
Flatten(ss) == IF ss = <<>> THEN <<>> ELSE Head(ss) \o Flatten(Tail(ss))

I64Vals == {0 - 257, 5, 66000}
I32Vals == {0 - 2, 16400}
\* Bytes no decoder recognises as a tag or marker, and the payload byte.
Unrecognized == {255}
DataBytes == {120}
Data == SeqsUpTo(DataBytes, MaxLen)

GoodItems ==
    {[type |-> "Null"], [type |-> "UnchangedToast"]}
    \cup {[type |-> "Text", data |-> d] : d \in Data}
    \cup {[type |-> "Binary", data |-> d] : d \in {e \in Data : Len(e) = MaxLen}}
BadItems ==
    [type : {"BadTag"}, byte : Unrecognized]
    \cup {[type |-> "NegLen", len |-> 0 - 1]}
Items == GoodItems \cup BadItems
KeyItems ==
    {[type |-> "Null"]}
    \cup [type : {"Text"}, data : [1..1 -> DataBytes]]
    \cup [type : {"BadTag"}, byte : Unrecognized]

EncItem(it) ==
    CASE it.type = "Null" -> <<Tag_n>>
      [] it.type = "UnchangedToast" -> <<Tag_u>>
      [] it.type = "Text" -> <<Tag_t>> \o EncInt(Len(it.data), 4) \o it.data
      [] it.type = "Binary" -> <<Tag_b>> \o EncInt(Len(it.data), 4) \o it.data
      [] it.type = "BadTag" -> <<it.byte>>
      [] it.type = "NegLen" -> <<Tag_t>> \o EncInt(it.len, 4)

\* A tuple set on the wire: the count, then the values.
TupleSetsOf(S, n) ==
    {[count |-> Len(its), items |-> its] : its \in SeqsUpTo(S, n)}
    \cup {[count |-> 0 - 1, items |-> <<>>]}
TupleSets == TupleSetsOf(Items, MaxCols)
KeySets == TupleSetsOf(KeyItems, MaxKeyCols)

EncTuples(ts) ==
    EncInt(ts.count, 2) \o Flatten([i \in 1..Len(ts.items) |-> EncItem(ts.items[i])])

Trails == {<<>>, <<Mark_N>>}
Sections ==
    {[marker |-> 0, ts |-> [count |-> 0, items |-> <<>>]]}
    \cup [marker : {Mark_K, Mark_O}, ts : KeySets]
EncSection(sec) ==
    IF sec.marker = 0 THEN <<>> ELSE <<sec.marker>> \o EncTuples(sec.ts)

Messages ==
    [k : {"Raw"}, bytes : SeqsUpTo({0, Tag_w} \cup Unrecognized, MaxRaw)]
    \cup [k : {"XLogData"}, wal_start : I64Vals, wal_end : I64Vals,
          timestamp : I64Vals, data : SeqsUpTo({66}, MaxPayload)]
    \cup [k : {"PrimaryKeepalive"}, wal_end : I64Vals, timestamp : I64Vals,
          reply : {0, 1, 200}]
    \cup [k : {"NoPayload"}, tag : DOMAIN NoPayloadTag, trail : Trails]
    \cup [k : {"Commit"}, commit_lsn : I64Vals, flags : {0, 0 - 128},
          transaction_lsn : {110}, timestamp : I64Vals]
    \cup [k : {"Insert"}, transaction_id : {1}, oid : I32Vals,
          marker : {Mark_N} \cup Unrecognized, ts : TupleSets]
    \cup [k : {"Update"}, transaction_id : {1}, oid : {16400},
          sec : Sections, marker : {Mark_N} \cup Unrecognized, ts : KeySets]
    \cup [k : {"Delete"}, transaction_id : I32Vals, oid : {16400},
          marker : {Mark_K, Mark_O, Mark_N} \cup Unrecognized, ts : KeySets]
    \cup [k : {"Tuples"}, ts : TupleSets, trail : Trails]
    \cup [k : {"TupleData"}, item : Items, trail : Trails]

Encode(m) ==
    CASE m.k = "Raw" -> m.bytes
      [] m.k = "XLogData" ->
            <<Tag_w>> \o EncInt(m.wal_start, 8) \o EncInt(m.wal_end, 8)
            \o EncInt(m.timestamp, 8) \o m.data
      [] m.k = "PrimaryKeepalive" ->
            <<Tag_k>> \o EncInt(m.wal_end, 8) \o EncInt(m.timestamp, 8)
            \o <<m.reply>>
      [] m.k = "NoPayload" -> <<m.tag>> \o m.trail
      [] m.k = "Commit" ->
            <<Tag_C>> \o EncInt(m.commit_lsn, 8) \o EncInt(m.flags, 1)
            \o EncInt(m.transaction_lsn, 8) \o EncInt(m.timestamp, 8)
      [] m.k = "Insert" ->
            <<Tag_I>> \o EncInt(m.transaction_id, 4) \o EncInt(m.oid, 4)
            \o <<m.marker>> \o EncTuples(m.ts)
      [] m.k = "Update" ->
            <<Tag_U>> \o EncInt(m.transaction_id, 4) \o EncInt(m.oid, 4)
            \o EncSection(m.sec) \o <<m.marker>> \o EncTuples(m.ts)
      [] m.k = "Delete" ->
            <<Tag_D>> \o EncInt(m.transaction_id, 4) \o EncInt(m.oid, 4)
            \o <<m.marker>> \o EncTuples(m.ts)
      [] m.k = "Tuples" -> EncTuples(m.ts) \o m.trail
      [] m.k = "TupleData" -> EncItem(m.item) \o m.trail

(***************************************************************************)
(* The state machine: one buffer, decoded once by one of the decoders.     *)
(***************************************************************************)
NoResult == [st |-> "none"]

\* buf is passed by value: what is left of it is dropped with the call.
Returned(r) == [st |-> r.st, val |-> r.val, err |-> r.err]

Init ==
    /\ msg \in Messages
    /\ input \in {Take(Encode(msg), n) : n \in 0..Len(Encode(msg))}
    /\ pc = "ready"
    /\ entry = "none"
    /\ result = NoResult

DecodeReplication ==
    /\ pc = "ready"
    /\ pc' = "done"
    /\ entry' = "Replication"
    /\ result' = Returned(Replication_decode_with(input))
    /\ UNCHANGED <<msg, input>>

DecodeLogical ==
    /\ pc = "ready"
    /\ pc' = "done"
    /\ entry' = "LogicalReplication"
    /\ result' = Returned(LogicalReplication_decode_with(input))
    /\ UNCHANGED <<msg, input>>

DecodeTuples ==
    /\ pc = "ready"
    /\ pc' = "done"
    /\ entry' = "Tuples"
    /\ result' = Tuples_decode(input)
    /\ UNCHANGED <<msg, input>>

DecodeTupleData ==
    /\ pc = "ready"
    /\ pc' = "done"
    /\ entry' = "TupleData"
    /\ result' = TupleData_decode(input)
    /\ UNCHANGED <<msg, input>>

Next ==
    \/ DecodeReplication
    \/ DecodeLogical
    \/ DecodeTuples
    \/ DecodeTupleData

Spec == Init /\ [][Next]_vars

(***************************************************************************)
(* Properties.                                                             *)
(***************************************************************************)
Done(e) == pc = "done" /\ entry = e
Whole == input = Encode(msg)
IsProtocolErr(r) == r.st = "err" /\ r.err.kind = "Protocol"
IsIoErr(r) == r.st = "err" /\ r.err.kind = "Io"
\* Every value of the tuple set is well formed and the count is its length.
GoodSet(ts) ==
    ts.count = Len(ts.items) /\ \A i \in 1..Len(ts.items) : ts.items[i] \in GoodItems
\* Offset in the encoding of ts of the first byte of its i-th value.
ItemOffset(ts, i) ==
    2 + Len(Flatten([j \in 1..(i - 1) |-> EncItem(ts.items[j])]))

\* C1: both entry points are total: every buffer, the empty one included,
\* ends in a message or an error value, never in a panic.
C1_Total ==
    (pc = "done" /\ entry \in {"Replication", "LogicalReplication"})
        => result.st \in {"ok", "err"}

\* C2: a buffer shorter than the fixed part of its message (XLogData 24
\* bytes after the tag, PrimaryKeepalive 17, Commit 25, the transaction id
\* and oid of Insert/Update/Delete, the count of a tuple set, the tag of a
\* tuple value) yields an IO/underflow error.
C2_FixedPart ==
    (Tag_w :> 25) @@ (Tag_k :> 18)
C2_LogicalFixedPart ==
    (Tag_C :> 26) @@ (Tag_I :> 9) @@ (Tag_U :> 9) @@ (Tag_D :> 9)
C2_Truncated ==
    \/ Len(input) = 0
    \/ /\ entry = "Replication"
       /\ input[1] \in {Tag_w, Tag_k}
       /\ Len(input) < C2_FixedPart[input[1]]
    \/ /\ entry = "LogicalReplication"
       /\ input[1] \in DOMAIN C2_LogicalFixedPart
       /\ Len(input) < C2_LogicalFixedPart[input[1]]
    \/ entry = "Tuples" /\ Len(input) < 2
C2_TruncatedIsUnderrun ==
    (pc = "done" /\ C2_Truncated) => IsIoErr(result)

\* C3: at each dispatch point a tag byte outside the recognised set yields
\* a protocol error citing that byte, never a message.
C3_LogicalTags ==
    {66, 77, 67, 79, 82, 89, 73, 85, 68, 84, 83, 69, 99, 65, 98, 80, 75, 114, 112}
C3_Cites(b) == IsProtocolErr(result) /\ result.err.byte = b /\ result.val = NoVal
C3_UnknownTag ==
    (pc = "done" /\ Len(input) >= 1) =>
        /\ (entry = "Replication" /\ input[1] \notin {119, 107})
                => C3_Cites(input[1])
        /\ (entry = "LogicalReplication" /\ input[1] \notin C3_LogicalTags)
                => C3_Cites(input[1])
        /\ (entry = "TupleData" /\ input[1] \notin {110, 117, 116, 98})
                => C3_Cites(input[1])
        /\ (/\ entry = "LogicalReplication" /\ msg.k = "Insert" /\ Whole
            /\ msg.marker = Mark_N /\ msg.ts.count = 1
            /\ msg.ts.items[1].type = "BadTag")
                => C3_Cites(msg.ts.items[1].byte)
C3_Witness ==
    /\ Done("TupleData") /\ Len(input) >= 1 /\ input[1] = 255
    /\ IsProtocolErr(result) /\ result.err.byte = 255

\* C4: a decoded Update or Delete never has both key_data and old_data.
C4_Exclusive ==
    (/\ Done("LogicalReplication") /\ result.st = "ok"
     /\ result.val.type \in {"Update", "Delete"})
        => ~(result.val.key_data.some /\ result.val.old_data.some)
C4_Witness ==
    /\ Done("LogicalReplication") /\ result.st = "ok"
    /\ result.val.type = "Update"
    /\ result.val.key_data.some /\ Len(result.val.key_data.cols) = 1
    /\ ~result.val.old_data.some

\* C5: a Delete whose marker byte after the oid is neither 'K' nor 'O'
\* yields a protocol error, not a Delete with both images empty.
C5_DeleteMarker ==
    (/\ Done("LogicalReplication") /\ Len(input) >= 10
     /\ input[1] = Tag_D /\ input[10] \notin {Mark_K, Mark_O})
        => IsProtocolErr(result)

\* C6: a negative column count, or a negative Text/Binary length, yields a
\* protocol error instead of being used as a size.
C6_NegativeRejected ==
    /\ (Done("Tuples") /\ Len(input) >= 2 /\ input[1] >= 128)
            => IsProtocolErr(result)
    /\ (/\ Done("TupleData") /\ Len(input) >= 5
        /\ input[1] \in {Tag_t, Tag_b} /\ input[2] >= 128)
            => IsProtocolErr(result)

\* C7: tag 'w' followed by at least 24 bytes decodes to XLogData with
\* wal_start, wal_end, timestamp the three big-endian signed 8-byte
\* integers in that order and data the remaining bytes, unchanged.
C7_XLogData ==
    (Done("Replication") /\ msg.k = "XLogData" /\ Len(input) >= 25) =>
        /\ result.st = "ok"
        /\ result.val.type = "XLogData"
        /\ result.val.wal_start = msg.wal_start
        /\ result.val.wal_end = msg.wal_end
        /\ result.val.timestamp = msg.timestamp
        /\ result.val.data = SubSeq(input, 26, Len(input))
C7_Witness ==
    /\ Done("Replication") /\ msg.k = "XLogData" /\ Whole
    /\ msg.wal_start = 0 - 257 /\ msg.wal_end = 66000 /\ msg.timestamp = 5
    /\ result.st = "ok" /\ result.val.data = <<66, 66>>

\* C8: in Update the byte after the oid is peeked: 'K' and 'O' consume it
\* and decode one tuple set into key_data resp. old_data, the other empty;
\* any other byte stays in the buffer, both stay empty and that byte is the
\* one tested as the new-row marker.
C8_Expect(key, old) ==
    /\ result.st = "ok"
    /\ result.val.type = "Update"
    /\ result.val.key_data = key
    /\ result.val.old_data = old
    /\ result.val.new_data = msg.ts.items
C8_UpdatePeek ==
    (Done("LogicalReplication") /\ msg.k = "Update" /\ Whole) =>
        /\ (/\ msg.sec.marker = Mark_K /\ GoodSet(msg.sec.ts)
            /\ msg.marker = Mark_N /\ GoodSet(msg.ts))
                => C8_Expect(Some(msg.sec.ts.items), None)
        /\ (/\ msg.sec.marker = Mark_O /\ GoodSet(msg.sec.ts)
            /\ msg.marker = Mark_N /\ GoodSet(msg.ts))
                => C8_Expect(None, Some(msg.sec.ts.items))
        /\ (msg.sec.marker = 0 /\ msg.marker = Mark_N /\ GoodSet(msg.ts))
                => C8_Expect(None, None)
        /\ (msg.sec.marker = 0 /\ msg.marker # Mark_N)
                => (result.st = "err" /\ result.err = ErrExpectedNew)
C8_Witness ==
    /\ Done("LogicalReplication") /\ msg.k = "Update" /\ Whole
    /\ msg.sec.marker = 0 /\ msg.marker = Mark_N /\ msg.ts.count = 1
    /\ result.st = "ok" /\ ~result.val.key_data.some
    /\ result.val.new_data = <<[type |-> "Text", data |-> <<120>>]>>

\* C9: in Insert after the oid, and in Update after the optional section,
\* a byte other than 'N' fails the decode with a protocol error and no
\* message, whatever follows; after 'N' the new tuple set is decoded.
C9_MarkerAt ==
    IF msg.k = "Insert" THEN 10 ELSE 10 + Len(EncSection(msg.sec))
C9_NewMarker ==
    /\ (/\ Done("LogicalReplication") /\ msg.k = "Insert"
        /\ Len(input) >= C9_MarkerAt /\ msg.marker # Mark_N)
            => (/\ result.st = "err" /\ result.err = ErrExpectedNew
                /\ result.val = NoVal)
    /\ (/\ Done("LogicalReplication") /\ msg.k = "Update"
        /\ (msg.sec.marker = 0 \/ GoodSet(msg.sec.ts))
        /\ Len(input) >= C9_MarkerAt /\ msg.marker # Mark_N)
            => (/\ result.st = "err" /\ result.err = ErrExpectedNew
                /\ result.val = NoVal)
    /\ (/\ Done("LogicalReplication") /\ msg.k = "Insert" /\ Whole
        /\ msg.marker = Mark_N /\ GoodSet(msg.ts))
            => (/\ result.st = "ok"
                /\ result.val = [type |-> "Insert",
                                 transaction_id |-> msg.transaction_id,
                                 oid |-> msg.oid, data |-> msg.ts.items])
C9_Witness ==
    /\ Done("LogicalReplication") /\ msg.k = "Insert" /\ Whole
    /\ msg.marker # Mark_N /\ GoodSet(msg.ts) /\ msg.ts.count = 2
    /\ result.st = "err" /\ result.err = ErrExpectedNew

\* C10: a tuple set with count n >= 0 and n well-formed values decodes to
\* exactly those n values in wire order with the cursor right after the
\* n-th; when a value fails to decode the tuple set fails with that error
\* and returns no values.
C10_ShortData ==
    \E i \in 1..Len(msg.ts.items) :
        /\ msg.ts.items[i].type \in {"Text", "Binary"}
        /\ Len(input) >= ItemOffset(msg.ts, i) + 5
        /\ Len(input) < ItemOffset(msg.ts, i) + 5 + Len(msg.ts.items[i].data)
C10_FirstBad(i) ==
    /\ msg.ts.items[i].type = "BadTag"
    /\ \A j \in 1..(i - 1) : msg.ts.items[j] \in GoodItems
C10_TupleSet ==
    (Done("Tuples") /\ msg.k = "Tuples") =>
        /\ (Whole /\ GoodSet(msg.ts))
                => (/\ result.st = "ok"
                    /\ result.val = msg.ts.items
                    /\ result.rest = msg.trail)
        /\ (Whole /\ msg.ts.count >= 0)
                => \A i \in 1..Len(msg.ts.items) :
                        C10_FirstBad(i) =>
                            /\ result.st = "err" /\ result.val = NoVal
                            /\ result.err.kind = "Protocol"
                            /\ result.err.byte = msg.ts.items[i].byte
        /\ (GoodSet(msg.ts) /\ C10_ShortData)
                => (/\ result.st = "err" /\ result.val = NoVal
                    /\ result.err = ErrIo)
        /\ (Whole /\ msg.ts.count >= 0 /\ ~GoodSet(msg.ts))
                => (result.st # "ok" /\ result.val = NoVal)
C10_Witness ==
    /\ Done("Tuples") /\ msg.k = "Tuples" /\ Whole
    /\ msg.trail = <<Mark_N>> /\ result.st = "ok" /\ result.rest = <<Mark_N>>
    /\ result.val = <<[type |-> "Text", data |-> <<120>>], [type |-> "Null"]>>

====
